---- MODULE Spec2Model ----
(***************************************************************************)
(* Exercise_Recommendation: the workout planner of src/Exercise.py and the *)
(* request handlers of src/app.py that drive it.                           *)
(*                                                                         *)
(* Conventions of the model                                                *)
(*  - A Python dict whose iteration order the code relies on (a goal's     *)
(*    workout_split) is a sequence of <<key, value>> pairs; other dicts    *)
(*    are functions.                                                       *)
(*  - Floats are exact fixed-point numbers: a difficulty modifier is held  *)
(*    in 1/1000, a progression multiplier in 1/20000, a probability in     *)
(*    1/100.  Within the bounds of the model (weeks below 11) the          *)
(*    truncations int(...) of the code give the same integers in IEEE      *)
(*    doubles and in exact arithmetic.                                     *)
(*  - A datetime is [day, tod]: day counts days since 2025-01-01 and may   *)
(*    be negative, tod is the time of day in slots of 24/TodSlots hours.   *)
(*  - The module-level generator of Python's random is one state variable, *)
(*    rng.  It is abstracted to a generator with RngStates states:         *)
(*    seeding sets the state to a hash of the seed key, each draw advances *)
(*    it.                                                                  *)
(***************************************************************************)
EXTENDS Integers, Sequences, FiniteSets, TLC

VARIABLES
    rng,                   \* state of the shared generator of module random
    exercise_db,           \* planner.exercise_db (ExerciseDatabase)
    goal_workout_mapping,  \* planner.goal_workout_mapping
    request,               \* the request the adapter is serving
    response,              \* what the handler returned for it, or NoResponse
    pools,                 \* the exercise pools that handler sampled from
    calls                  \* concurrent invocations of the planner, by thread

vars == <<rng, exercise_db, goal_workout_mapping, request, response, pools, calls>>

(***************************************************************************)
(* Bounds of the model                                                     *)
(***************************************************************************)
RngStates == 8          \* number of states of the abstract generator
TodSlots == 2           \* times of day a datetime distinguishes
MaxWeeks == 2           \* weeks of a plan request: 0..MaxWeeks
MaxPreferredDays == 2   \* preferred_days of a profile: 1..MaxPreferredDays
MaxPastDays == 1        \* challenge dates start MaxPastDays before 2025-01-01
MaxDay == 1             \* and end MaxDay days after it
MaxShortSpan == 1       \* batch ranges end -1..MaxShortSpan days after the start,
MaxOverCap == 8         \* or days_limit-1, days_limit, days_limit+MaxOverCap days
MaxProgressionWeek == 10 \* weeks calculate_progression is applied to alone
MaxExercises == 6       \* exercises of a workout format_exercise is applied to
MaxDuration == 24       \* total minutes format_exercise is applied to
MaxThreads == 2
SplitGrain == 4
MaxPastWeeks == 1         \* concurrent invocations

\* Python's None where a datetime is expected
None == [none |-> TRUE]
NoResponse == [status |-> "none"]

(***************************************************************************)
(* Helpers                                                                 *)
(***************************************************************************)
Range(s) == {s[i] : i \in DOMAIN s}

Min(a, b) == IF a <= b THEN a ELSE b

\* int(num/den) of Python for den > 0: truncation towards zero
PyInt(num, den) == IF num >= 0 THEN num \div den ELSE -((-num) \div den)

RECURSIVE SumSeq(_)
SumSeq(s) == IF s = <<>> THEN 0 ELSE s[1] + SumSeq(Tail(s))

(***************************************************************************)
(* Enumerations and the static tables                                      *)
(***************************************************************************)
FitnessLevel == {"Beginner", "Intermediate", "Advanced"}

HealthCondition == {"Knee Pain", "Back Pain", "Heart Condition", "Shoulder Injury"}

ExerciseDatabase ==
    [workout_types |->
        [Cardio |-> <<"Treadmill", "Cycling", "Swimming", "Rowing", "Elliptical",
                      "Jump Rope", "Running", "Stair Climbing", "Boxing", "Kickboxing",
                      "Dancing", "Mountain Climbers", "Burpees", "High Knees">>,
         Strength |-> <<"Squats", "Deadlifts", "Bench Press", "Shoulder Press",
                        "Pull-ups", "Push-ups", "Lunges", "Dumbbell Rows",
                        "Leg Press", "Tricep Dips", "Bicep Curls", "Plank Holds",
                        "Romanian Deadlifts", "Hip Thrusts", "Face Pulls">>,
         Flexibility |-> <<"Yoga", "Pilates", "Dynamic Stretching", "Static Stretching",
                           "Foam Rolling", "Mobility Work", "Cat-Cow Stretch",
                           "Downward Dog", "Child's Pose", "Hamstring Stretch",
                           "Hip Flexor Stretch", "Shoulder Rolls", "Spine Twists">>,
         HIIT |-> <<"Burpee Intervals", "Sprint Intervals", "Jump Rope Intervals",
                    "Mountain Climber Intervals", "Squat Jumps", "Box Jumps",
                    "Battle Ropes", "Kettlebell Swings", "Medicine Ball Slams">>],
     health_restrictions |->
        ("Knee Pain" :> <<"Squats", "Lunges", "Box Jumps", "Jump Rope",
                          "Stair Climbing", "Burpees", "Mountain Climbers">>) @@
        ("Back Pain" :> <<"Deadlifts", "Romanian Deadlifts", "Shoulder Press",
                          "Bench Press", "Good Mornings">>) @@
        ("Heart Condition" :> <<"HIIT", "Sprint Intervals", "Burpee Intervals",
                                "Box Jumps", "Battle Ropes">>) @@
        ("Shoulder Injury" :> <<"Pull-ups", "Shoulder Press", "Bench Press",
                                "Face Pulls", "Push-ups">>),
     equipment_mapping |->
        ("Treadmill" :> {"Treadmill"}) @@
        ("Cycling" :> {"Stationary Bike"}) @@
        ("Yoga" :> {"Yoga Mat"}) @@
        ("Kettlebell Swings" :> {"Kettlebell"}) @@
        ("Box Jumps" :> {"Plyo Box"}) @@
        ("Deadlifts" :> {"Barbell", "Weight Plates"}) @@
        ("Squats" :> {"Barbell", "Weight Plates"}) @@
        ("Swimming" :> {"Pool Access"}) @@
        ("Rowing" :> {"Rowing Machine"})]

\* WorkoutPlanner.__init__: probabilities in 1/100, in the order of the dict
GoalWorkoutMapping ==
    ("Weight Loss" :>
        [primary_type |-> "Cardio",
         workout_split |-> << <<"Cardio", 50>>, <<"Strength", 30>>, <<"HIIT", 20>> >>,
         intensity_range |-> [Cardio |-> "65-75% max heart rate",
                              Strength |-> "12-15 reps",
                              HIIT |-> "30 seconds work/30 seconds rest"]]) @@
    ("Muscle Gain" :>
        [primary_type |-> "Strength",
         workout_split |-> << <<"Strength", 70>>, <<"Cardio", 15>>, <<"Flexibility", 15>> >>,
         intensity_range |-> [Strength |-> "8-12 reps",
                              Cardio |-> "20-30 minutes low intensity",
                              Flexibility |-> "15-20 minutes"]]) @@
    ("Endurance" :>
        [primary_type |-> "Cardio",
         workout_split |-> << <<"Cardio", 60>>, <<"Strength", 25>>, <<"Flexibility", 15>> >>,
         intensity_range |-> [Cardio |-> "60-70% max heart rate",
                              Strength |-> "15-20 reps",
                              Flexibility |-> "20-30 minutes"]]) @@
    ("Flexibility" :>
        [primary_type |-> "Flexibility",
         workout_split |-> << <<"Flexibility", 60>>, <<"Strength", 25>>, <<"Cardio", 15>> >>,
         intensity_range |-> [Flexibility |-> "30-45 minutes",
                              Strength |-> "12-15 reps",
                              Cardio |-> "20-30 minutes low intensity"]])

\* The planner object as the handlers see it: the generator and the tables
World(r, db, gm) == [rng |-> r, exercise_db |-> db, goal_workout_mapping |-> gm]

(***************************************************************************)
(* datetime                                                                *)
(***************************************************************************)
DaysTo2025 == 20089    \* days from 1970-01-01 to datetime(2025, 1, 1)

DateTime(d, t) == [day |-> d, tod |-> t]

\* (date - datetime(2025, 1, 1)).days: whole days, rounded towards -infinity
DaysSince2025(date) == date.day

\* date + timedelta(days=n)
PlusDays(date, n) == [date EXCEPT !.day = @ + n]

\* date1 <= date2 and date1 > date2 on datetimes
DateLeq(a, b) == a.day < b.day \/ (a.day = b.day /\ a.tod <= b.tod)

\* mutant: the range check never fires
DateGt_never(a, b) == FALSE

DateGt(a, b) == ~DateLeq(a, b)

\* the calendar date <<year, month, day>> of a datetime (proleptic Gregorian),
\* from the day of the 400-year era (doe), the year of the era (yoe), the
\* day of the year counted from March 1 (doy) and its month (mp)
CivilOfMonth(era, yoe, doy, mp) ==
    <<yoe + era * 400 + (IF mp < 10 THEN 0 ELSE 1),
      IF mp < 10 THEN mp + 3 ELSE mp - 9,
      doy - (153 * mp + 2) \div 5 + 1>>

CivilOfDay(era, yoe, doy) == CivilOfMonth(era, yoe, doy, (5 * doy + 2) \div 153)

CivilOfYear(era, doe, yoe) ==
    CivilOfDay(era, yoe, doe - (365 * yoe + yoe \div 4 - yoe \div 100))

CivilOfEra(era, doe) ==
    CivilOfYear(era, doe,
                (doe - doe \div 1460 + doe \div 36524 - doe \div 146096) \div 365)

CivilOfDays(z) == CivilOfEra(z \div 146097, z % 146097)

CivilDate(date) == CivilOfDays(date.day + DaysTo2025 + 719468)

\* date.strftime('%Y%m%d'), the digits read as one number
YmdNumber(c) == c[1] * 10000 + c[2] * 100 + c[3]

StrfYmd(date) == YmdNumber(CivilDate(date))

\* date.strftime("%Y-%m-%d")
StrfIso(date) == CivilDate(date)

\* date.weekday(): Monday is 0; 2025-01-01 is a Wednesday
Weekday(date) == (date.day + 2) % 7

\* date.strftime("%A")
DayName(date) ==
    <<"Monday", "Tuesday", "Wednesday", "Thursday", "Friday", "Saturday",
      "Sunday">>[Weekday(date) + 1]

(***************************************************************************)
(* The random module.  Every operation takes the generator's state and     *)
(* returns [rng, value]: the state it leaves and what it returned.         *)
(***************************************************************************)
\* the hash of a seed key, a sequence of the numbers formatted into the string
RECURSIVE HashKey(_, _)
HashKey(key, h) ==
    IF key = <<>> THEN h ELSE HashKey(Tail(key), (h * 31 + Head(key)) % RngStates)

\* mutant: seeding leaves the generator as it was
Seed_ignored(r, key) == r

\* random.seed(key): the state depends on the key alone
Seed(r, key) == HashKey(key, 7 % RngStates)

\* one step of the generator
Advance(r) == (5 * r + 3) % RngStates

\* random.random(): value/RngStates is the float in [0, 1)
Random(r) == [rng |-> Advance(r), value |-> Advance(r)]

\* random._randbelow(n): an integer in 0..n-1
RandBelow(r, n) == [rng |-> Advance(r), value |-> (Advance(r) * n) \div RngStates]

\* random.choices(population, weights=weights, k=1)[0]: bisect the cumulative
\* weights at random() * total, the index capped at the last element
RECURSIVE Bisect(_, _, _, _, _)
Bisect(weights, i, cumulative, x, total) ==
    \* x/RngStates * total < cumulative + weights[i]
    IF i = Len(weights) \/ x * total < (cumulative + weights[i]) * RngStates
    THEN i
    ELSE Bisect(weights, i + 1, cumulative + weights[i], x, total)

Choices(r, population, weights) ==
    LET d == Random(r)
    IN [rng |-> d.rng,
        value |-> population[Bisect(weights, 1, 0, d.value, SumSeq(weights))]]

\* one iteration of the selection loop of random.sample: a draw below the
\* number of elements left, the chosen element moved out of the pool
SampleStep(st) ==
    LET left == Len(st.pool) - Len(st.result)
        d == RandBelow(st.rng, left)
        j == d.value + 1
    IN [rng |-> d.rng,
        result |-> Append(st.result, st.pool[j]),
        pool |-> [st.pool EXCEPT ![j] = st.pool[left]]]

RECURSIVE SampleLoop(_, _)
SampleLoop(st, k) == IF Len(st.result) >= k THEN st ELSE SampleLoop(SampleStep(st), k)

\* random.sample(population, k) for 0 <= k <= len(population)
Sample(r, population, k) ==
    LET st == SampleLoop([rng |-> r, result |-> <<>>, pool |-> population], k)
    IN [rng |-> st.rng, value |-> st.result]

(***************************************************************************)
(* WorkoutPlanner: the pure calculations                                   *)
(***************************************************************************)
ModifierUnit == 10 * 100          \* a difficulty modifier of 1.0
MultiplierUnit == 20 * ModifierUnit   \* a progression multiplier of 1.0

\* int(base * multiplier)
Scaled(base, multiplier) == PyInt(base * multiplier, MultiplierUnit)

calculate_difficulty_modifier(user) ==
    LET base_modifier ==
            CASE user.fitness_level = "Beginner" -> 800
              [] user.fitness_level = "Intermediate" -> 1100
              [] user.fitness_level = "Advanced" -> 1400
              [] OTHER -> 1000
    IN IF user.health_conditions # {}
       THEN (base_modifier * 9) \div 10
       ELSE base_modifier

\* mutant: the complexity tier is not capped at 3
calculate_progression_uncapped(week, difficulty_modifier) ==
    [volume_multiplier |-> (20 + 2 * (week - 1)) * difficulty_modifier,
     intensity_multiplier |-> (20 + (week - 1)) * difficulty_modifier,
     complexity_level |-> 1 + PyInt(week - 1, 2)]

calculate_progression(week, difficulty_modifier) ==
    [volume_multiplier |-> (20 + 2 * (week - 1)) * difficulty_modifier,
     intensity_multiplier |-> (20 + (week - 1)) * difficulty_modifier,
     complexity_level |-> Min(3, 1 + PyInt(week - 1, 2))]

\* mutant: the base count is not scaled by the volume multiplier
calculate_num_exercises_unscaled(fitness_level, progression) ==
    CASE fitness_level = "Beginner" -> 4
      [] fitness_level = "Intermediate" -> 5
      [] fitness_level = "Advanced" -> 6
      [] OTHER -> 3

calculate_num_exercises(fitness_level, progression) ==
    LET base_exercises ==
            CASE fitness_level = "Beginner" -> 4
              [] fitness_level = "Intermediate" -> 5
              [] fitness_level = "Advanced" -> 6
              [] OTHER -> 3
    IN Scaled(base_exercises, progression.volume_multiplier)

\* the string "<n> minutes" as its two words
calculate_duration(workout_type, fitness_level) ==
    LET base_duration ==
            CASE fitness_level = "Beginner" -> 30
              [] fitness_level = "Intermediate" -> 45
              [] fitness_level = "Advanced" -> 60
              [] OTHER -> 45
    IN IF workout_type \in {"HIIT", "Cardio"}
       THEN <<PyInt(base_duration * 8, 10), "minutes">>
       ELSE <<base_duration, "minutes">>

\* int(total_duration.split()[0])
DurationMinutes(total_duration) == total_duration[1]

\* mutant: the extra minute also goes to the exercise at index remainder
format_exercise_extra_minute(exercise, workout_type, progression, exercise_index, num_exercises, total_duration_min) ==
    IF workout_type = "Strength"
    THEN [name |-> exercise,
          sets |-> Scaled(3, progression.volume_multiplier),
          reps |-> Scaled(10, progression.intensity_multiplier),
          rest |-> "60-90 seconds"]
    ELSE IF workout_type = "HIIT"
    THEN [name |-> exercise,
          intervals |-> Scaled(6, progression.volume_multiplier),
          work_time |-> "30 seconds",
          rest_time |-> "30 seconds"]
    ELSE LET exercise_duration == total_duration_min \div num_exercises
             remainder == total_duration_min % num_exercises
         IN [name |-> exercise,
             duration |-> <<IF exercise_index <= remainder
                            THEN exercise_duration + 1
                            ELSE exercise_duration, "minutes">>]

\* exercise_index is 0-based, as in the code
format_exercise(exercise, workout_type, progression, exercise_index, num_exercises, total_duration_min) ==
    IF workout_type = "Strength"
    THEN [name |-> exercise,
          sets |-> Scaled(3, progression.volume_multiplier),
          reps |-> Scaled(10, progression.intensity_multiplier),
          rest |-> "60-90 seconds"]
    ELSE IF workout_type = "HIIT"
    THEN [name |-> exercise,
          intervals |-> Scaled(6, progression.volume_multiplier),
          work_time |-> "30 seconds",
          rest_time |-> "30 seconds"]
    ELSE LET exercise_duration == total_duration_min \div num_exercises
             remainder == total_duration_min % num_exercises
         IN [name |-> exercise,
             duration |-> <<IF exercise_index < remainder
                            THEN exercise_duration + 1
                            ELSE exercise_duration, "minutes">>]

get_required_equipment(db, exercises) ==
    UNION {db.equipment_mapping[e] :
             e \in Range(exercises) \cap DOMAIN db.equipment_mapping}

(***************************************************************************)
(* WorkoutPlanner: the operations that draw from the generator.  Each      *)
(* takes the planner's world w (generator and tables) and returns the      *)
(* world it leaves, its value, and the pools it sampled from.              *)
(***************************************************************************)
\* select_workout_type: rand <= cumulative is
\* rand.value/RngStates <= cumulative/100
\* mutant: a draw equal to the running sum does not select the category
RECURSIVE SplitWalk_strict(_, _, _, _)
SplitWalk_strict(workout_split, i, cumulative, rand) ==
    IF i > Len(workout_split)
    THEN workout_split[1][1]
    ELSE IF rand * 100 < (cumulative + workout_split[i][2]) * RngStates
    THEN workout_split[i][1]
    ELSE SplitWalk_strict(workout_split, i + 1, cumulative + workout_split[i][2], rand)

RECURSIVE SplitWalk(_, _, _, _)
SplitWalk(workout_split, i, cumulative, rand) ==
    IF i > Len(workout_split)
    THEN workout_split[1][1]
    ELSE IF rand * 100 <= (cumulative + workout_split[i][2]) * RngStates
    THEN workout_split[i][1]
    ELSE SplitWalk(workout_split, i + 1, cumulative + workout_split[i][2], rand)

select_workout_type(w, workout_split) ==
    LET rand == Random(w.rng)
    IN [w |-> [w EXCEPT !.rng = rand.rng],
        value |-> SplitWalk(workout_split, 1, 0, rand.value)]

\* mutant: the category's list is returned unfiltered
FilterByHealth_unfiltered(db, workout_type, health_conditions) ==
    [exercise_db |-> db, pool |-> db.workout_types[workout_type]]

\* mutant: the category's list is filtered in place, in the database
FilterByHealth_in_place(db, workout_type, health_conditions) ==
    LET restricted(c) ==
            IF c \in DOMAIN db.health_restrictions
            THEN Range(db.health_restrictions[c])
            ELSE {}
        keep(e) == \A c \in health_conditions : e \notin restricted(c)
        filtered == SelectSeq(db.workout_types[workout_type], keep)
    IN [exercise_db |-> [db EXCEPT !.workout_types[workout_type] = filtered],
        pool |-> filtered]

\* the copy of the category's list with the exercises restricted by the
\* user's conditions removed; the database is left as it was
FilterByHealth(db, workout_type, health_conditions) ==
    LET restricted(c) ==
            IF c \in DOMAIN db.health_restrictions
            THEN Range(db.health_restrictions[c])
            ELSE {}
        keep(e) == \A c \in health_conditions : e \notin restricted(c)
    IN [exercise_db |-> db,
        pool |-> SelectSeq(db.workout_types[workout_type], keep)]

\* the pool generate_daily_workout samples from
PlanPool(filtered, workout_type) ==
    IF filtered = <<>>
    THEN <<IF workout_type = "Cardio"
           THEN "Low-Impact Walking"
           ELSE "Bodyweight Isometric Holds">>
    ELSE filtered

\* mutant: no fallback when the filtered pool is empty
ChallengePool_no_fallback(filtered) == filtered

\* the pool generate_daily_challenge samples from
ChallengePool(filtered) ==
    IF filtered = <<>> THEN <<"Low-Impact Alternative">> ELSE filtered

FormatAll(selected_exercises, workout_type, progression, total_duration_min) ==
    [i \in 1..Len(selected_exercises) |->
        format_exercise(selected_exercises[i], workout_type, progression, i - 1,
                        Len(selected_exercises), total_duration_min)]

\* generate_daily_workout once the exercises are selected
DailyWorkout(db, workout_type, intensity, user, progression, selected_exercises) ==
    LET total_duration == calculate_duration(workout_type, user.fitness_level)
    IN [type |-> workout_type,
        intensity |-> intensity,
        exercises |-> FormatAll(selected_exercises, workout_type, progression,
                                DurationMinutes(total_duration)),
        duration |-> total_duration,
        required_equipment |-> get_required_equipment(db, selected_exercises)]

generate_daily_workout(w, workout_type, intensity, user, progression) ==
    LET f == FilterByHealth(w.exercise_db, workout_type, user.health_conditions)
        exercises_pool == PlanPool(f.pool, workout_type)
        num_exercises == calculate_num_exercises(user.fitness_level, progression)
        s == Sample(w.rng, exercises_pool, Min(num_exercises, Len(exercises_pool)))
    IN [w |-> [w EXCEPT !.rng = s.rng, !.exercise_db = f.exercise_db],
        value |-> DailyWorkout(f.exercise_db, workout_type, intensity, user,
                               progression, s.value),
        pools |-> <<exercises_pool>>]

\* mutant: the last preferred day gets no workout
RECURSIVE PlanDays_one_short(_, _, _, _, _, _, _)
PlanDays_one_short(w, goal_data, user, progression, day, weekly_plan, sampled) ==
    IF day >= user.preferred_days - 1
    THEN [w |-> w, value |-> weekly_plan, pools |-> sampled]
    ELSE LET t == select_workout_type(w, goal_data.workout_split)
             d == generate_daily_workout(t.w, t.value,
                                         goal_data.intensity_range[t.value],
                                         user, progression)
         IN PlanDays_one_short(d.w, goal_data, user, progression, day + 1,
                               Append(weekly_plan, d.value), sampled \o d.pools)

\* for day in range(user.preferred_days)
RECURSIVE PlanDays(_, _, _, _, _, _, _)
PlanDays(w, goal_data, user, progression, day, weekly_plan, sampled) ==
    IF day >= user.preferred_days
    THEN [w |-> w, value |-> weekly_plan, pools |-> sampled]
    ELSE LET t == select_workout_type(w, goal_data.workout_split)
             d == generate_daily_workout(t.w, t.value,
                                         goal_data.intensity_range[t.value],
                                         user, progression)
         IN PlanDays(d.w, goal_data, user, progression, day + 1,
                     Append(weekly_plan, d.value), sampled \o d.pools)

\* for week in range(1, weeks + 1); the dict 'weeks' as the sequence of its
\* items, the key "Week <n>" as <<"Week", n>>
RECURSIVE PlanWeeks(_, _, _, _, _, _, _, _)
PlanWeeks(w, goal_data, user, difficulty_modifier, weeks, week, plan_weeks, sampled) ==
    IF week > weeks
    THEN [w |-> w, value |-> plan_weeks, pools |-> sampled]
    ELSE LET week_progression == calculate_progression(week, difficulty_modifier)
             d == PlanDays(w, goal_data, user, week_progression, 0, <<>>, <<>>)
         IN PlanWeeks(d.w, goal_data, user, difficulty_modifier, weeks, week + 1,
                      Append(plan_weeks,
                             [label |-> <<"Week", week>>,
                              progression_level |-> week_progression,
                              workouts |-> d.value]),
                      sampled \o d.pools)

\* mutant: an unknown goal is planned with the "Weight Loss" policy
generate_workout_plan_get(w, user, weeks, now) ==
    LET difficulty_modifier == calculate_difficulty_modifier(user)
        goal_data == IF user.goal \in DOMAIN w.goal_workout_mapping
                     THEN w.goal_workout_mapping[user.goal]
                     ELSE w.goal_workout_mapping["Weight Loss"]
        p == PlanWeeks(w, goal_data, user, difficulty_modifier, weeks, 1, <<>>, <<>>)
    IN [w |-> p.w,
        raised |-> FALSE,
        value |-> [user_profile |-> user, start_date |-> now, weeks |-> p.value],
        pools |-> p.pools]

\* raises KeyError when the goal is no key of goal_workout_mapping
generate_workout_plan(w, user, weeks, now) ==
    IF user.goal \notin DOMAIN w.goal_workout_mapping
    THEN [w |-> w, raised |-> TRUE, value |-> <<"KeyError", user.goal>>, pools |-> <<>>]
    ELSE LET difficulty_modifier == calculate_difficulty_modifier(user)
             goal_data == w.goal_workout_mapping[user.goal]
             p == PlanWeeks(w, goal_data, user, difficulty_modifier, weeks, 1, <<>>, <<>>)
         IN [w |-> p.w,
             raised |-> FALSE,
             value |-> [user_profile |-> user, start_date |-> now, weeks |-> p.value],
             pools |-> p.pools]

\* mutant: an unknown goal falls back to the "Muscle Gain" policy
ChallengeGoalData_muscle_gain(gm, goal) ==
    IF goal \in DOMAIN gm THEN gm[goal] ELSE gm["Muscle Gain"]

\* the goal's policy, the "Weight Loss" one when the goal has none
ChallengeGoalData(gm, goal) ==
    IF goal \in DOMAIN gm THEN gm[goal] ELSE gm["Weight Loss"]

\* the level as the f-string of the seed renders it
LevelKey(fitness_level) ==
    CASE fitness_level = "Beginner" -> 1
      [] fitness_level = "Intermediate" -> 2
      [] fitness_level = "Advanced" -> 3
      [] OTHER -> 0

ChallengeCount(fitness_level) ==
    CASE fitness_level = "Beginner" -> 2
      [] fitness_level = "Intermediate" -> 3
      [] fitness_level = "Advanced" -> 4
      [] OTHER -> 2

\* the two keys generate_daily_challenge seeds the generator with
SeedKey1(user, date) == <<user.age, LevelKey(user.fitness_level), StrfYmd(date)>>

\* mutant: the second key also carries the time of day
SeedKey2_with_time(user, date) ==
    <<user.age, LevelKey(user.fitness_level), StrfYmd(date), Weekday(date), date.tod>>

SeedKey2(user, date) ==
    <<user.age, LevelKey(user.fitness_level), StrfYmd(date), Weekday(date)>>

\* available_types and weights
SplitTypes(goal_data) ==
    [i \in DOMAIN goal_data.workout_split |-> goal_data.workout_split[i][1]]

SplitWeights(goal_data) ==
    [i \in DOMAIN goal_data.workout_split |-> goal_data.workout_split[i][2]]

\* generate_daily_challenge once the exercises are selected
DailyChallenge(db, user, date, workout_type, selected_exercises) ==
    LET day == DaysSince2025(date) + 1
        week == (day - 1) \div 7 + 1
        difficulty == calculate_difficulty_modifier(user)
        total_duration == calculate_duration(workout_type, user.fitness_level)
        progression == calculate_progression(week, difficulty)
        day_name == DayName(date)
    IN [name |-> <<day_name, workout_type, "Challenge">>,
        date |-> StrfIso(date),
        day_of_week |-> day_name,
        type |-> workout_type,
        difficulty |-> user.fitness_level,
        exercises |-> FormatAll(selected_exercises, workout_type, progression,
                                DurationMinutes(total_duration)),
        duration |-> total_duration,
        required_equipment |-> get_required_equipment(db, selected_exercises)]

generate_daily_challenge(w, user, specific_date, now) ==
    LET date == IF specific_date = None THEN now ELSE specific_date
        seed1 == Seed(w.rng, SeedKey1(user, date))
        goal_data == ChallengeGoalData(w.goal_workout_mapping, user.goal)
        seed2 == Seed(seed1, SeedKey2(user, date))
        c == Choices(seed2, SplitTypes(goal_data), SplitWeights(goal_data))
        workout_type == c.value
        f == FilterByHealth(w.exercise_db, workout_type, user.health_conditions)
        exercises_pool == ChallengePool(f.pool)
        exercise_count == ChallengeCount(user.fitness_level)
        s == Sample(c.rng, exercises_pool, Min(exercise_count, Len(exercises_pool)))
    IN [w |-> [w EXCEPT !.rng = s.rng, !.exercise_db = f.exercise_db],
        raised |-> FALSE,
        value |-> DailyChallenge(f.exercise_db, user, date, workout_type, s.value),
        pools |-> <<exercises_pool>>]

(***************************************************************************)
(* The requests the model serves                                           *)
(***************************************************************************)
days_limit == 31

Ages == {25, 45}

Goals == DOMAIN GoalWorkoutMapping \cup {"Nonexistent"}

\* no condition, each condition alone, all four
ConditionSets == {{}} \cup {{c} : c \in HealthCondition} \cup {HealthCondition}

Users(days) ==
    [age : Ages, height : {170}, weight : {70}, gender : {"Female"},
     fitness_level : FitnessLevel, health_conditions : ConditionSets,
     goal : Goals, preferred_days : days]

TimesOfDay == 0..(TodSlots - 1)

\* a date more than MaxPastWeeks weeks before 2025-01-01
LongAgo == DateTime(0 - (7 * MaxPastWeeks + 1), 0)

ChallengeDates ==
    {DateTime(d, t) : d \in (0 - MaxPastDays)..MaxDay, t \in TimesOfDay}
        \cup {LongAgo}

\* what datetime.now() may return
Clock == {DateTime(MaxDay, t) : t \in TimesOfDay}

BatchUsers ==
    {u \in Users({1}) :
        /\ u.age = 25
        /\ \/ u.fitness_level = "Beginner" /\ u.health_conditions = {}
              /\ u.goal = "Weight Loss"
           \/ u.fitness_level = "Advanced" /\ u.health_conditions = HealthCondition
              /\ u.goal = "Nonexistent"}

BatchSpans ==
    (0 - 1)..MaxShortSpan \cup {days_limit - 1, days_limit, days_limit + MaxOverCap}

PlanRequests ==
    [op : {"generate-plan"}, user : Users(1..MaxPreferredDays), weeks : 0..MaxWeeks]

ChallengeRequests ==
    [op : {"daily-challenge"}, user : Users({1}), date : ChallengeDates \cup {None}]

BatchRequests ==
    {[op |-> "daily-challenges-batch", user |-> u,
      start_date |-> DateTime(0, t1), end_date |-> DateTime(n, t2)] :
        u \in BatchUsers, t1 \in TimesOfDay, t2 \in TimesOfDay, n \in BatchSpans}

ReadRequests ==
    [op : {"exercises"}, type : {"", "Cardio", "Yoga"}]
        \cup {[op |-> o] : o \in {"workout-types", "equipment", "goals"}}

\* direct calls of the planner's pure methods
Modifiers == {calculate_difficulty_modifier(u) : u \in Users({1})}

ProgressionCalls ==
    [op : {"calculate_progression"}, week : 1..MaxProgressionWeek,
     difficulty_modifier : Modifiers]

FormatCalls ==
    [op : {"format_exercise"}, workout_type : {"Cardio", "Flexibility"},
     num_exercises : 1..MaxExercises, total_duration_min : 0..MaxDuration]

\* ordered splits over up to three categories, the probabilities multiples of
\* 1/SplitGrain; a sum below 1 stands for a float sum that rounding left
\* short of the draw
SplitCategories == <<"Cardio", "Strength", "Flexibility">>

SplitPercents == {k * (100 \div SplitGrain) : k \in 0..SplitGrain}

Splits ==
    {[i \in 1..n |-> <<SplitCategories[i], p[i]>>] :
        n \in DOMAIN SplitCategories,
        p \in {q \in [DOMAIN SplitCategories -> SplitPercents] :
                  q[1] + q[2] + q[3] <= 100}}

SelectCalls == [op : {"select_workout_type"}, workout_split : Splits]

Requests ==
    PlanRequests \cup ChallengeRequests \cup BatchRequests \cup ReadRequests
        \cup ProgressionCalls \cup FormatCalls \cup SelectCalls

\* the requests that follow the first one
LaterUsers ==
    [age : {25}, height : {170}, weight : {70}, gender : {"Female"},
     fitness_level : {"Beginner", "Advanced"}, health_conditions : {{}},
     goal : {"Weight Loss", "Nonexistent"}, preferred_days : {1}]

LaterRequests ==
    [op : {"generate-plan"},
     user : {u \in LaterUsers : u.fitness_level = "Beginner"}, weeks : {1}]
        \cup [op : {"daily-challenge"}, user : LaterUsers, date : {DateTime(0, 0)}]
        \cup [op : {"daily-challenges-batch"}, user : LaterUsers \cap BatchUsers,
              start_date : {DateTime(0, 0)}, end_date : {DateTime(1, 0)}]
        \cup [op : {"exercises"}, type : {"", "Cardio"}]
        \cup {[op |-> "goals"]}
        \cup [op : {"calculate_progression"}, week : {1}, difficulty_modifier : {800}]
        \cup [op : {"format_exercise"}, workout_type : {"Cardio"},
              num_exercises : {3}, total_duration_min : {MaxDuration}]

(***************************************************************************)
(* The handlers of app.py                                                  *)
(***************************************************************************)
error_response(message) == [status |-> 400, body |-> [error |-> TRUE, message |-> message]]

jsonify(body) == [status |-> 200, body |-> body]

TheWorld == World(rng, exercise_db, goal_workout_mapping)

\* what a call of the planner leaves behind
Leaves(w) ==
    /\ rng' = w.rng
    /\ exercise_db' = w.exercise_db
    /\ goal_workout_mapping' = w.goal_workout_mapping

Serving(op) == response = NoResponse /\ request.op = op

\* POST /api/generate-plan
GenerateWorkoutPlan ==
    /\ Serving("generate-plan")
    /\ \E now \in Clock :
         LET r == generate_workout_plan(TheWorld, request.user, request.weeks, now)
         IN /\ Leaves(r.w)
            /\ pools' = r.pools
            /\ response' =
                 IF r.raised
                 THEN error_response(<<"Failed to generate workout plan", r.value>>)
                 ELSE jsonify([workout_plan |-> r.value])
    /\ UNCHANGED <<request, calls>>

\* POST /api/daily-challenge
GetDailyChallenge ==
    /\ Serving("daily-challenge")
    /\ \E now \in IF request.date = None THEN Clock ELSE {None} :
         LET r == generate_daily_challenge(TheWorld, request.user, request.date, now)
         IN /\ Leaves(r.w)
            /\ pools' = r.pools
            /\ response' = jsonify([daily_challenge |-> r.value])
    /\ UNCHANGED <<request, calls>>

\* while current_date <= end_date and day_count < days_limit
RECURSIVE BatchLoop(_, _, _, _, _, _, _)
BatchLoop(w, user, current_date, end_date, day_count, challenges, sampled) ==
    IF DateLeq(current_date, end_date) /\ day_count < days_limit
    THEN LET r == generate_daily_challenge(w, user, current_date, None)
         IN IF r.raised
            THEN r
            ELSE BatchLoop(r.w, user, PlusDays(current_date, 1), end_date,
                           day_count + 1, Append(challenges, r.value),
                           sampled \o r.pools)
    ELSE [w |-> w, raised |-> FALSE, value |-> challenges, pools |-> sampled]

\* POST /api/daily-challenges-batch
GetDailyChallengesBatch ==
    /\ Serving("daily-challenges-batch")
    /\ IF DateGt(request.start_date, request.end_date)
       THEN /\ response' =
                 error_response("Start date must be before or equal to end date")
            /\ UNCHANGED <<rng, exercise_db, goal_workout_mapping, pools>>
       ELSE LET r == BatchLoop(TheWorld, request.user, request.start_date,
                               request.end_date, 0, <<>>, <<>>)
            IN /\ Leaves(r.w)
               /\ pools' = r.pools
               /\ response' =
                    IF r.raised
                    THEN error_response(<<"Failed to generate daily challenges batch",
                                          r.value>>)
                    ELSE jsonify([daily_challenges |-> r.value,
                                  count |-> Len(r.value)])
    /\ UNCHANGED <<request, calls>>

\* GET /api/exercises
GetExercises ==
    /\ Serving("exercises")
    /\ response' =
         IF request.type # "" /\ request.type \in DOMAIN exercise_db.workout_types
         THEN jsonify([exercises |-> exercise_db.workout_types[request.type]])
         ELSE jsonify([exercises |-> exercise_db.workout_types])
    /\ UNCHANGED <<rng, exercise_db, goal_workout_mapping, request, pools, calls>>

\* GET /api/workout-types
GetWorkoutTypes ==
    /\ Serving("workout-types")
    /\ response' = jsonify([workout_types |-> DOMAIN exercise_db.workout_types])
    /\ UNCHANGED <<rng, exercise_db, goal_workout_mapping, request, pools, calls>>

\* GET /api/equipment
GetEquipment ==
    /\ Serving("equipment")
    /\ response' = jsonify([equipment_mapping |-> exercise_db.equipment_mapping])
    /\ UNCHANGED <<rng, exercise_db, goal_workout_mapping, request, pools, calls>>

\* GET /api/goals
GetGoals ==
    /\ Serving("goals")
    /\ response' = jsonify([goals |-> DOMAIN goal_workout_mapping])
    /\ UNCHANGED <<rng, exercise_db, goal_workout_mapping, request, pools, calls>>

\* planner.calculate_progression(week, difficulty_modifier)
CalculateProgression ==
    /\ Serving("calculate_progression")
    /\ response' = [status |-> "returned",
                    body |-> calculate_progression(request.week,
                                                   request.difficulty_modifier)]
    /\ UNCHANGED <<rng, exercise_db, goal_workout_mapping, request, pools, calls>>

\* planner.format_exercise over the selected exercises of one workout, as the
\* loops of generate_daily_workout and generate_daily_challenge call it
FormatExercises ==
    /\ Serving("format_exercise")
    /\ response' =
         [status |-> "returned",
          body |-> FormatAll(SubSeq(exercise_db.workout_types[request.workout_type],
                                    1, request.num_exercises),
                             request.workout_type,
                             calculate_progression(1, ModifierUnit),
                             request.total_duration_min)]
    /\ UNCHANGED <<rng, exercise_db, goal_workout_mapping, request, pools, calls>>

\* planner.select_workout_type(workout_split)
SelectWorkoutType ==
    /\ Serving("select_workout_type")
    /\ LET r == select_workout_type(TheWorld, request.workout_split)
       IN /\ Leaves(r.w)
          /\ response' = [status |-> "returned", body |-> r.value]
    /\ UNCHANGED <<request, pools, calls>>

\* the next request arrives once the last one is answered
Receive ==
    /\ response # NoResponse
    /\ request' \in LaterRequests
    /\ response' = NoResponse
    /\ pools' = <<>>
    /\ UNCHANGED <<rng, exercise_db, goal_workout_mapping, calls>>

Init ==
    /\ rng \in 0..(RngStates - 1)
    /\ exercise_db = ExerciseDatabase
    /\ goal_workout_mapping = GoalWorkoutMapping
    /\ request \in Requests
    /\ response = NoResponse
    /\ pools = <<>>
    /\ calls = <<>>

Next ==
    \/ GenerateWorkoutPlan
    \/ GetDailyChallenge
    \/ GetDailyChallengesBatch
    \/ GetExercises
    \/ GetWorkoutTypes
    \/ GetEquipment
    \/ GetGoals
    \/ CalculateProgression
    \/ FormatExercises
    \/ SelectWorkoutType
    \/ Receive

Spec == Init /\ [][Next]_vars

(***************************************************************************)
(* Concurrent invocations.  The planner is one module-level object and the *)
(* generator is the module-level one of random, so request threads share   *)
(* both.  A thread runs from one operation on the generator to the next in *)
(* one step: random.seed, random.random, random.choices and each draw of   *)
(* the loop of random.sample.                                              *)
(***************************************************************************)
Threads == 1..MaxThreads

ConcurrentUsers ==
    [age : {25}, height : {170}, weight : {70}, gender : {"Female"},
     fitness_level : {"Beginner", "Advanced"}, health_conditions : {{}},
     goal : {"Weight Loss"}, preferred_days : {1}]

\* the locals of an invocation that has not drawn yet
Begin(op, user, date, weeks, pc) ==
    [op |-> op, user |-> user, date |-> date, weeks |-> weeks, pc |-> pc,
     week |-> 1, day |-> 0, workout_type |-> "", pool |-> <<>>, count |-> 0,
     selected_exercises |-> <<>>, weekly_plan |-> <<>>, plan_weeks |-> <<>>,
     result |-> None]

ConcurrentCalls ==
    {Begin("generate_daily_challenge", u, d, 0, "seed1") :
        u \in ConcurrentUsers, d \in {DateTime(0, 0), DateTime(1, 0)}}
    \cup {Begin("generate_workout_plan", u, None, 1, "select") :
            u \in {v \in ConcurrentUsers : v.fitness_level = "Beginner"}}

Running(t, op, pc) == calls[t].op = op /\ calls[t].pc = pc

Tables == UNCHANGED <<exercise_db, goal_workout_mapping, request, response, pools>>

\* random.seed of the date and the user
ChallengeSeed1(t) ==
    /\ Running(t, "generate_daily_challenge", "seed1")
    /\ rng' = Seed(rng, SeedKey1(calls[t].user, calls[t].date))
    /\ calls' = [calls EXCEPT ![t].pc = "seed2"]
    /\ Tables

\* random.seed of the date, the user and the weekday
ChallengeSeed2(t) ==
    /\ Running(t, "generate_daily_challenge", "seed2")
    /\ rng' = Seed(rng, SeedKey2(calls[t].user, calls[t].date))
    /\ calls' = [calls EXCEPT ![t].pc = "choices"]
    /\ Tables

\* random.choices, then the pool and the count of the challenge
ChallengeChoices(t) ==
    /\ Running(t, "generate_daily_challenge", "choices")
    /\ LET user == calls[t].user
           goal_data == ChallengeGoalData(goal_workout_mapping, user.goal)
           c == Choices(rng, SplitTypes(goal_data), SplitWeights(goal_data))
           f == FilterByHealth(exercise_db, c.value, user.health_conditions)
           exercises_pool == ChallengePool(f.pool)
       IN /\ rng' = c.rng
          /\ calls' = [calls EXCEPT
                          ![t].pc = "sample",
                          ![t].workout_type = c.value,
                          ![t].pool = exercises_pool,
                          ![t].count = Min(ChallengeCount(user.fitness_level),
                                           Len(exercises_pool))]
    /\ Tables

\* select_workout_type of the next slot of a plan, then its pool and count
PlanSelect(t) ==
    /\ Running(t, "generate_workout_plan", "select")
    /\ LET user == calls[t].user
           goal_data == goal_workout_mapping[user.goal]
           progression == calculate_progression(calls[t].week,
                                                calculate_difficulty_modifier(user))
           s == select_workout_type(TheWorld, goal_data.workout_split)
           f == FilterByHealth(exercise_db, s.value, user.health_conditions)
           exercises_pool == PlanPool(f.pool, s.value)
       IN /\ rng' = s.w.rng
          /\ calls' = [calls EXCEPT
                          ![t].pc = "sample",
                          ![t].workout_type = s.value,
                          ![t].pool = exercises_pool,
                          ![t].selected_exercises = <<>>,
                          ![t].count =
                              Min(calculate_num_exercises(user.fitness_level, progression),
                                  Len(exercises_pool))]
    /\ Tables

\* one draw of the loop of random.sample
SampleDraw(t) ==
    /\ calls[t].pc = "sample"
    /\ Len(calls[t].selected_exercises) < calls[t].count
    /\ LET st == SampleStep([rng |-> rng, result |-> calls[t].selected_exercises,
                             pool |-> calls[t].pool])
       IN /\ rng' = st.rng
          /\ calls' = [calls EXCEPT ![t].selected_exercises = st.result,
                                    ![t].pool = st.pool]
    /\ Tables

\* the challenge is formatted and returned
ChallengeReturn(t) ==
    /\ Running(t, "generate_daily_challenge", "sample")
    /\ Len(calls[t].selected_exercises) = calls[t].count
    /\ calls' = [calls EXCEPT
                    ![t].pc = "done",
                    ![t].result = DailyChallenge(exercise_db, calls[t].user, calls[t].date,
                                                 calls[t].workout_type,
                                                 calls[t].selected_exercises)]
    /\ UNCHANGED rng
    /\ Tables

\* the workout of the slot is formatted; the plan goes on to the next slot or
\* is returned
PlanWorkout(t) ==
    /\ Running(t, "generate_workout_plan", "sample")
    /\ Len(calls[t].selected_exercises) = calls[t].count
    /\ LET c == calls[t]
           goal_data == goal_workout_mapping[c.user.goal]
           progression == calculate_progression(c.week,
                                                calculate_difficulty_modifier(c.user))
           workout == DailyWorkout(exercise_db, c.workout_type,
                                   goal_data.intensity_range[c.workout_type],
                                   c.user, progression, c.selected_exercises)
           weekly_plan == Append(c.weekly_plan, workout)
           week_done == c.day + 1 >= c.user.preferred_days
           plan_weeks == IF week_done
                         THEN Append(c.plan_weeks,
                                     [label |-> <<"Week", c.week>>,
                                      progression_level |-> progression,
                                      workouts |-> weekly_plan])
                         ELSE c.plan_weeks
           plan_done == week_done /\ c.week + 1 > c.weeks
       IN calls' = [calls EXCEPT
                       ![t].pc = IF plan_done THEN "done" ELSE "select",
                       ![t].day = IF week_done THEN 0 ELSE c.day + 1,
                       ![t].week = IF week_done THEN c.week + 1 ELSE c.week,
                       ![t].weekly_plan = IF week_done THEN <<>> ELSE weekly_plan,
                       ![t].plan_weeks = plan_weeks,
                       ![t].result = IF plan_done THEN plan_weeks ELSE None]
    /\ UNCHANGED rng
    /\ Tables

InitConcurrent ==
    /\ rng \in 0..(RngStates - 1)
    /\ exercise_db = ExerciseDatabase
    /\ goal_workout_mapping = GoalWorkoutMapping
    /\ request = [op |-> "none"]
    /\ response = NoResponse
    /\ pools = <<>>
    /\ calls \in [Threads -> ConcurrentCalls]

NextConcurrent ==
    \E t \in Threads :
        \/ ChallengeSeed1(t)
        \/ ChallengeSeed2(t)
        \/ ChallengeChoices(t)
        \/ PlanSelect(t)
        \/ SampleDraw(t)
        \/ ChallengeReturn(t)
        \/ PlanWorkout(t)

SpecConcurrent == InitConcurrent /\ [][NextConcurrent]_vars

(***************************************************************************)
(* Properties                                                              *)
(***************************************************************************)
Answered(op) == request.op = op /\ response # NoResponse

Minutes(entry) == entry.duration[1]

\* C7: a timed workout (Cardio, Flexibility) of N >= 1 exercises and D >= 0
\* total minutes gives the exercise at 0-based index i the whole-minute
\* duration (D div N) + (1 if i < D mod N else 0), and the durations of the N
\* exercises sum to exactly D.
C7_DurationsSumToTotal ==
    Answered("format_exercise") =>
        LET N == request.num_exercises
            D == request.total_duration_min
            entries == response.body
        IN /\ Len(entries) = N
           /\ \A i \in 0..(N - 1) :
                 /\ Minutes(entries[i + 1]) \in Nat
                 /\ Minutes(entries[i + 1]) =
                      (D \div N) + (IF i < D % N THEN 1 ELSE 0)
           /\ SumSeq([k \in 1..N |-> Minutes(entries[k])]) = D

\* a workout whose minutes do not divide evenly among its exercises
C7_Witness ==
    /\ Answered("format_exercise")
    /\ request.num_exercises = 5
    /\ request.total_duration_min = 24
    /\ Minutes(response.body[4]) = 5
    /\ Minutes(response.body[5]) = 4

\* C10: for a fixed positive difficulty modifier and weeks w >= 1 the volume
\* and intensity multipliers and the complexity tier of week w are at most
\* those of week w+1, and the tier is min(3, 1 + floor((w-1)/2)), in {1,2,3}.
C10_ProgressionMonotone ==
    Answered("calculate_progression") =>
        LET w == request.week
            this == response.body
            next == calculate_progression(w + 1, request.difficulty_modifier)
        IN /\ this.volume_multiplier <= next.volume_multiplier
           /\ this.intensity_multiplier <= next.intensity_multiplier
           /\ this.complexity_level <= next.complexity_level
           /\ this.complexity_level \in {1, 2, 3}
           /\ this.complexity_level = Min(3, 1 + ((w - 1) \div 2))

\* a week past the cap of the complexity tier, with a modifier reduced for a
\* health condition
C10_Witness ==
    /\ Answered("calculate_progression")
    /\ request.week = 7
    /\ request.difficulty_modifier = 720
    /\ response.body.complexity_level = 3
    /\ response.body.volume_multiplier > MultiplierUnit

\* the workouts of the answer, whichever handler gave it
RECURSIVE Flatten(_)
Flatten(ss) == IF ss = <<>> THEN <<>> ELSE Head(ss) \o Flatten(Tail(ss))

AnsweredWorkouts ==
    IF Answered("generate-plan") /\ response.status = 200
    THEN Flatten([i \in DOMAIN response.body.workout_plan.weeks |->
                     response.body.workout_plan.weeks[i].workouts])
    ELSE IF Answered("daily-challenge") /\ response.status = 200
    THEN <<response.body.daily_challenge>>
    ELSE IF Answered("daily-challenges-batch") /\ response.status = 200
    THEN response.body.daily_challenges
    ELSE <<>>

KnownGoal(user) == user.goal \in DOMAIN goal_workout_mapping

Excluded(e, health_conditions) ==
    \E c \in health_conditions : e \in Range(exercise_db.health_restrictions[c])

FallbackNames ==
    {"Low-Impact Walking", "Bodyweight Isometric Holds", "Low-Impact Alternative"}

\* C1: every exercise of every workout that generate_workout_plan or
\* generate_daily_challenge produces is in the catalog list of the workout's
\* category and in no exclusion list of the user's health conditions, or is
\* the single fallback exercise of a category whose exercises are all excluded.
C1_ExercisesFromFilteredPool ==
    \A k \in DOMAIN AnsweredWorkouts :
        LET workout == AnsweredWorkouts[k]
            catalog == Range(exercise_db.workout_types[workout.type])
            conditions == request.user.health_conditions
        IN \A i \in DOMAIN workout.exercises :
              LET e == workout.exercises[i].name
              IN \/ e \in catalog /\ ~Excluded(e, conditions)
                 \/ /\ \A x \in catalog : Excluded(x, conditions)
                    /\ Len(workout.exercises) = 1
                    /\ e \in FallbackNames

\* a Strength workout of a plan for a user with all four conditions, from
\* whose category nine exercises are excluded
C1_Witness ==
    /\ Answered("generate-plan")
    /\ request.user.health_conditions = HealthCondition
    /\ \E k \in DOMAIN AnsweredWorkouts :
          /\ AnsweredWorkouts[k].type = "Strength"
          /\ Len(AnsweredWorkouts[k].exercises) >= 3
          /\ Cardinality({x \in Range(exercise_db.workout_types["Strength"]) :
                            Excluded(x, HealthCondition)}) = 9

\* C2: the challenge generate_daily_challenge returns for a profile and a
\* given date is the one it returns for them from every state the shared
\* generator can have been left in by the calls before.
C2_ChallengeDeterministic ==
    (Answered("daily-challenge") /\ request.date # None) =>
        \A r \in 0..(RngStates - 1) :
            generate_daily_challenge(World(r, exercise_db, goal_workout_mapping),
                                     request.user, request.date, None).value
                = response.body.daily_challenge

\* a challenge answered with the generator left in another state than the one
\* its seeding alone would leave
C2_Witness ==
    /\ Answered("daily-challenge")
    /\ request.date = DateTime(1, 1)
    /\ request.user.fitness_level = "Advanced"
    /\ Len(response.body.daily_challenge.exercises) = 4
    /\ rng # Seed(rng, SeedKey2(request.user, request.date))

\* C5: generate_workout_plan for a profile whose goal is no key of the goal
\* table fails with the unknown-goal error (KeyError) whatever weeks and
\* preferred_days are: no plan is returned and no pool is sampled.
C5_UnknownGoalPlanFails ==
    (Answered("generate-plan") /\ ~KnownGoal(request.user)) =>
        /\ response.status = 400
        /\ response.body.error
        /\ response.body.message[2] = <<"KeyError", request.user.goal>>
        /\ "workout_plan" \notin DOMAIN response.body
        /\ pools = <<>>

C5_Witness ==
    /\ Answered("generate-plan")
    /\ request.user.goal = "Nonexistent"
    /\ request.weeks = 2
    /\ request.user.preferred_days = 2
    /\ response.status = 400

\* C6: generate_daily_challenge for a profile whose goal is no key of the
\* goal table does not fail: its challenge has a category of the "Weight Loss"
\* split and is the challenge of the same profile and date with goal
\* "Weight Loss".
C6_UnknownGoalChallengeFallsBack ==
    (Answered("daily-challenge") /\ ~KnownGoal(request.user) /\ request.date # None) =>
        /\ response.status = 200
        /\ response.body.daily_challenge.type \in {"Cardio", "Strength", "HIIT"}
        /\ \A r \in 0..(RngStates - 1) :
              generate_daily_challenge(World(r, exercise_db, goal_workout_mapping),
                                       [request.user EXCEPT !.goal = "Weight Loss"],
                                       request.date, None).value
                  = response.body.daily_challenge

C6_Witness ==
    /\ Answered("daily-challenge")
    /\ request.user.goal = "Nonexistent"
    /\ request.date # None
    /\ response.status = 200
    /\ response.body.daily_challenge.exercises # <<>>

\* a database whose exclusion list of c holds every exercise of category t
Excluding(db, c, t) == [db EXCEPT !.health_restrictions[c] = db.workout_types[t]]

\* the pools of both paths for category t and a set of conditions hold an
\* exercise, in the database as it is and in one that excludes all of t
PoolsHold(t, conditions) ==
    \A db \in {exercise_db} \cup {Excluding(exercise_db, c, t) : c \in conditions} :
        LET f == FilterByHealth(db, t, conditions).pool
        IN /\ PlanPool(f, t) # <<>>
           /\ ChallengePool(f) # <<>>
           /\ f = <<>> => Len(PlanPool(f, t)) = 1 /\ Len(ChallengePool(f)) = 1

\* C8: the pool exercises are sampled from is never empty, on the plan path
\* and on the challenge path, for every category and every set of health
\* conditions; a category the filter empties gets a single fallback exercise
\* (also in a database that excludes a whole category), and no error is raised.
C8_PoolNeverEmpty ==
    /\ \A i \in DOMAIN pools : pools[i] # <<>>
    /\ (Answered("daily-challenge") \/ (Answered("generate-plan") /\ KnownGoal(request.user)))
          => /\ response.status = 200
             /\ pools # <<>> \/ request.op = "generate-plan"
             /\ \A t \in DOMAIN exercise_db.workout_types :
                   PoolsHold(t, request.user.health_conditions)
    /\ Answered("workout-types") =>
          \A t \in response.body.workout_types :
             \A conditions \in SUBSET HealthCondition : PoolsHold(t, conditions)

\* a HIIT challenge for a user with all four conditions, sampled from the
\* five HIIT exercises no condition excludes
C8_Witness ==
    /\ Answered("daily-challenge")
    /\ request.user.health_conditions = HealthCondition
    /\ response.body.daily_challenge.type = "HIIT"
    /\ Len(pools) = 1
    /\ Len(pools[1]) = 5

\* C9: whatever requests were served, the exercise database and the goal
\* table are the ones built at start-up, and the read accessors list them.
C9_TablesUnchanged ==
    /\ exercise_db = ExerciseDatabase
    /\ goal_workout_mapping = GoalWorkoutMapping
    /\ Answered("exercises") =>
          response.body.exercises =
             IF request.type \in DOMAIN ExerciseDatabase.workout_types
             THEN ExerciseDatabase.workout_types[request.type]
             ELSE ExerciseDatabase.workout_types
    /\ Answered("workout-types") =>
          response.body.workout_types = {"Cardio", "Strength", "Flexibility", "HIIT"}
    /\ Answered("equipment") =>
          response.body.equipment_mapping = ExerciseDatabase.equipment_mapping
    /\ Answered("goals") =>
          response.body.goals = {"Weight Loss", "Muscle Gain", "Endurance", "Flexibility"}

\* a plan was generated for a user whose conditions filter the Cardio list
C9_Witness ==
    /\ Answered("generate-plan")
    /\ request.user.health_conditions = {"Knee Pain"}
    /\ \E i \in DOMAIN pools :
          Len(pools[i]) < Len(exercise_db.workout_types["Cardio"])
    /\ exercise_db = ExerciseDatabase

\* C4: a batch request with start <= end is answered with exactly
\* min(31, calendar days of the inclusive range start..end) challenges, the
\* i-th (0-based) dated start + i days.
C4_BatchOnePerCalendarDay ==
    (Answered("daily-challenges-batch")
        /\ DateLeq(request.start_date, request.end_date)) =>
        LET days == request.end_date.day - request.start_date.day + 1
            challenges == response.body.daily_challenges
        IN /\ response.status = 200
           /\ response.body.count = Min(31, days)
           /\ Len(challenges) = Min(31, days)
           /\ \A i \in 0..(Len(challenges) - 1) :
                 challenges[i + 1].date = StrfIso(PlusDays(request.start_date, i))

\* the challenge generate_daily_challenge returns for the call when it runs
\* with no other invocation
Alone(call) == generate_daily_challenge(TheWorld, call.user, call.date, None).value

\* C3: however concurrent invocations interleave between their operations on
\* the random source, every generate_daily_challenge call returns the result
\* it returns alone for its profile and date.
C3_ConcurrentChallengeIsolated ==
    \A t \in DOMAIN calls :
        Running(t, "generate_daily_challenge", "done") =>
            calls[t].result = Alone(calls[t])

\* the start of the requested range is after its end
StartAfterEnd ==
    \/ request.start_date.day > request.end_date.day
    \/ /\ request.start_date.day = request.end_date.day
       /\ request.start_date.tod > request.end_date.tod

\* C11: a batch request whose start is after its end is answered with the
\* range error and nothing else: the answer carries no challenge list, no
\* challenge was generated (no pool was sampled) and the generator and the
\* tables are as they were.
C11_InvalidRangeFailsFirst ==
    [][(Serving("daily-challenges-batch") /\ StartAfterEnd) =>
          /\ response' =
                error_response("Start date must be before or equal to end date")
          /\ "daily_challenges" \notin DOMAIN response'.body
          /\ pools' = <<>>
          /\ UNCHANGED <<rng, exercise_db, goal_workout_mapping>>]_vars

C11_Witness ==
    /\ Answered("daily-challenges-batch")
    /\ StartAfterEnd
    /\ response.status = 400

\* the running sum of the probabilities of the first i categories, in percent
RECURSIVE RunningSum(_, _)
RunningSum(workout_split, i) ==
    IF i = 0 THEN 0 ELSE RunningSum(workout_split, i - 1) + workout_split[i][2]

\* the categories whose running sum is at least the draw rand/RngStates
Reached(workout_split, rand) ==
    {i \in DOMAIN workout_split :
        RunningSum(workout_split, i) * RngStates >= rand * 100}

\* C12: select_workout_type returns the first category, in the order of the
\* split, whose running sum of probabilities is at least the draw, and the
\* first category of the split when no running sum reaches the draw; it
\* returns (does not raise) and its result is a key of the split.
C12_SelectFirstReached ==
    [][Serving("select_workout_type") =>
          LET workout_split == request.workout_split
              reached == Reached(workout_split, Random(rng).value)
              first == IF reached = {}
                       THEN 1
                       ELSE CHOOSE i \in reached : \A j \in reached : i <= j
          IN /\ response'.status = "returned"
             /\ response'.body = workout_split[first][1]
             /\ \E i \in DOMAIN workout_split : response'.body = workout_split[i][1]]_vars

\* probabilities summing to 1 and a draw past the first running sum
C12_Witness ==
    /\ Answered("select_workout_type")
    /\ RunningSum(request.workout_split, Len(request.workout_split)) = 100
    /\ response.body # request.workout_split[1][1]
    /\ response.body \in {request.workout_split[i][1] : i \in DOMAIN request.workout_split}

\* the names of the exercises of a workout, in order
Names(workout) == [i \in DOMAIN workout.exercises |-> workout.exercises[i].name]

\* C13: the plan for a known goal has one entry per week 1..weeks, labelled
\* "Week <n>" in order; each entry holds preferred_days workouts and the
\* progression calculate_progression gives for that week and the user's
\* difficulty modifier; every workout of the week is formatted with that
\* progression, its category is a key of the goal's split and its intensity
\* is the goal's descriptor for the category.
C13_PlanStructure ==
    (Answered("generate-plan") /\ KnownGoal(request.user)) =>
        LET user == request.user
            goal_data == goal_workout_mapping[user.goal]
            modifier == calculate_difficulty_modifier(user)
            weeks == response.body.workout_plan.weeks
        IN /\ response.status = 200
           /\ Len(weeks) = request.weeks
           /\ \A n \in DOMAIN weeks :
                 /\ weeks[n].label = <<"Week", n>>
                 /\ weeks[n].progression_level = calculate_progression(n, modifier)
                 /\ Len(weeks[n].workouts) = user.preferred_days
                 /\ \A d \in DOMAIN weeks[n].workouts :
                       LET workout == weeks[n].workouts[d]
                       IN /\ \E i \in DOMAIN goal_data.workout_split :
                                workout.type = goal_data.workout_split[i][1]
                          /\ workout.intensity = goal_data.intensity_range[workout.type]
                          /\ workout.exercises =
                                FormatAll(Names(workout), workout.type,
                                          weeks[n].progression_level, Minutes(workout))

\* a plan of several weeks of several days whose progression changes
C13_Witness ==
    /\ Answered("generate-plan")
    /\ KnownGoal(request.user)
    /\ request.weeks = MaxWeeks
    /\ request.user.preferred_days = MaxPreferredDays
    /\ response.status = 200
    /\ Len(response.body.workout_plan.weeks) = MaxWeeks
    /\ response.body.workout_plan.weeks[1].progression_level
          # response.body.workout_plan.weeks[MaxWeeks].progression_level

\* the challenges of the answer, each with the day (since 2025-01-01) it is for
AnsweredChallenges ==
    IF Answered("daily-challenge") /\ response.status = 200
    THEN <<[workout |-> response.body.daily_challenge,
            day |-> IF request.date = None THEN MaxDay ELSE request.date.day]>>
    ELSE IF Answered("daily-challenges-batch") /\ response.status = 200
    THEN [i \in DOMAIN response.body.daily_challenges |->
            [workout |-> response.body.daily_challenges[i],
             day |-> request.start_date.day + i - 1]]
    ELSE <<>>

\* the week generate_daily_challenge computes the progression for
WeekOfDay(day) == (day \div 7) + 1

\* the size of the category's pool after the exclusions of the conditions
FilteredSize(type, health_conditions) ==
    Cardinality({e \in Range(exercise_db.workout_types[type]) :
                    ~Excluded(e, health_conditions)})

\* floor(base x multiplier)
FloorScaled(base, multiplier) == (base * multiplier) \div MultiplierUnit

PlanBase(fitness_level) ==
    CASE fitness_level = "Beginner" -> 4
      [] fitness_level = "Intermediate" -> 5
      [] fitness_level = "Advanced" -> 6
      [] OTHER -> 3

ChallengeBase(fitness_level) ==
    CASE fitness_level = "Beginner" -> 2
      [] fitness_level = "Intermediate" -> 3
      [] fitness_level = "Advanced" -> 4
      [] OTHER -> 2

DistinctExercises(workout) ==
    \A i, j \in DOMAIN workout.exercises :
        i # j => workout.exercises[i].name # workout.exercises[j].name

\* the weekly-plan path: min(floor(base x volume_multiplier), pool size)
\* pairwise distinct exercises
PlanCountsScaled ==
    (Answered("generate-plan") /\ response.status = 200) =>
        LET user == request.user
            weeks == response.body.workout_plan.weeks
        IN \A n \in DOMAIN weeks : \A d \in DOMAIN weeks[n].workouts :
              LET workout == weeks[n].workouts[d]
                  progression ==
                      calculate_progression(n, calculate_difficulty_modifier(user))
              IN /\ Len(workout.exercises) =
                      Min(FloorScaled(PlanBase(user.fitness_level),
                                      progression.volume_multiplier),
                          FilteredSize(workout.type, user.health_conditions))
                 /\ DistinctExercises(workout)

\* C14 as claimed: in the weekly-plan path and in the daily-challenge path
\* the number of exercises of a workout is min(count, size of the filtered
\* pool) with count = floor(base(fitness level) x volume_multiplier of the
\* progression), base 4/5/6/3 for the plan and 2/3/4/2 for the challenge,
\* and the exercises are pairwise distinct.
C14_CountScaledInBothPaths ==
    /\ PlanCountsScaled
    /\ \A k \in DOMAIN AnsweredChallenges :
          LET workout == AnsweredChallenges[k].workout
              user == request.user
              progression ==
                  calculate_progression(WeekOfDay(AnsweredChallenges[k].day),
                                        calculate_difficulty_modifier(user))
          IN /\ Len(workout.exercises) =
                  Min(FloorScaled(ChallengeBase(user.fitness_level),
                                  progression.volume_multiplier),
                      FilteredSize(workout.type, user.health_conditions))
             /\ DistinctExercises(workout)

\* C14 amended: the weekly-plan path is as claimed; in the daily-challenge
\* path the number of exercises is min(base(fitness level), size of the
\* filtered pool) with base 2/3/4/2, not scaled by the progression; the
\* exercises are pairwise distinct in both paths.
C14_CountScaledInPlanOnly ==
    /\ PlanCountsScaled
    /\ \A k \in DOMAIN AnsweredChallenges :
          LET workout == AnsweredChallenges[k].workout
              user == request.user
          IN /\ Len(workout.exercises) =
                  Min(ChallengeBase(user.fitness_level),
                      FilteredSize(workout.type, user.health_conditions))
             /\ DistinctExercises(workout)

\* a Beginner's challenge: two exercises, where the scaled count would be one
C14_Witness ==
    /\ Answered("daily-challenge")
    /\ request.user.fitness_level = "Beginner"
    /\ Len(response.body.daily_challenge.exercises) = 2
    /\ FloorScaled(2, calculate_progression(WeekOfDay(AnsweredChallenges[1].day),
                                            calculate_difficulty_modifier(request.user)
                                           ).volume_multiplier) = 1

\* the counts of an exercise entry that the progression scales
ScaledCounts(exercise) ==
    {exercise[f] : f \in DOMAIN exercise \cap {"sets", "reps", "intervals"}}

\* C15: the progression generate_daily_challenge computes for a challenge,
\* whatever its date (dates before 2025-01-01 included), has a complexity
\* tier in 1..3 and volume and intensity multipliers >= 0, and no exercise of
\* the challenge has a negative number of sets, reps or intervals.
C15_ChallengeProgressionInRange ==
    \A k \in DOMAIN AnsweredChallenges :
        LET workout == AnsweredChallenges[k].workout
            progression ==
                calculate_progression(WeekOfDay(AnsweredChallenges[k].day),
                                      calculate_difficulty_modifier(request.user))
        IN /\ progression.complexity_level \in 1..3
           /\ progression.volume_multiplier >= 0
           /\ progression.intensity_multiplier >= 0
           /\ \A i \in DOMAIN workout.exercises :
                 \A n \in ScaledCounts(workout.exercises[i]) : n >= 0

\* profiles that differ from the user in height, weight, gender or
\* preferred_days only
SameButUnused(user) ==
    {[user EXCEPT !.height = 180], [user EXCEPT !.weight = 90],
     [user EXCEPT !.gender = "Male"], [user EXCEPT !.preferred_days = 7],
     [user EXCEPT !.height = 180, !.weight = 90, !.gender = "Male",
                  !.preferred_days = 7]}

\* the datetimes of the calendar day of a datetime
SameDay(date) == {DateTime(date.day, t) : t \in TimesOfDay}

\* C16: the challenge answered for a profile and a date is the challenge of
\* every profile that differs only in height, weight, gender or
\* preferred_days, at every time of the same calendar day (the day of the
\* clock when the request has no date).
C16_ChallengeDependsOnKeyFieldsOnly ==
    (Answered("daily-challenge") /\ response.status = 200) =>
        \A user \in SameButUnused(request.user) \cup {request.user} :
            IF request.date = None
            THEN \A now \in Clock :
                    generate_daily_challenge(TheWorld, user, None, now).value
                        = response.body.daily_challenge
            ELSE \A date \in SameDay(request.date) :
                    generate_daily_challenge(TheWorld, user, date, None).value
                        = response.body.daily_challenge

\* a challenge asked for a time past midnight
C16_Witness ==
    /\ Answered("daily-challenge")
    /\ response.status = 200
    /\ request.date # None
    /\ request.date.tod > 0
    /\ \E user \in SameButUnused(request.user) :
          /\ user.weight # request.user.weight
          /\ generate_daily_challenge(TheWorld, user, DateTime(request.date.day, 0),
                                      None).value = response.body.daily_challenge

====
